---- MODULE Spec2Model ----
(***************************************************************************)
(* MediRemind: the reminder lifecycle shared by the background poller      *)
(* (backend/worker.py) and the per-client notification stream              *)
(* (backend/routers/notifications.py), with the email and push channels    *)
(* (backend/notifications.py, backend/push_notifications.py).              *)
(*                                                                         *)
(* The store is the committed content of the database.  A session keeps    *)
(* its pending writes to itself until it commits (autoflush is off,        *)
(* database.py:18); a rollback or a close drops them.  The poller is its   *)
(* own process, each stream client is one task of the API process; every   *)
(* action below is one stretch of code between two points where another    *)
(* process or task can run.                                                *)
(***************************************************************************)
EXTENDS Integers, Sequences, FiniteSets, TLC

\* ------------------------------------------------------------ bounds
NumReminders == 2
NumClients == 2
NumSubs == 2
MaxTime == 1
MaxCount == 2
NumThreads == 2
MaxRowId == 3

Reminders == 1..NumReminders
Clients == 1..NumClients
SubIds == 1..NumSubs
Times == 0..MaxTime
Threads == 1..NumThreads
RowIds == 1..MaxRowId

Users == {"alice", "bob"}
\* medication.user is None (worker.py:123)
NoUser == "no_user"
\* reminder.medication is None: the medication row is missing
NoMed == "no_medication"
Owners == Users \cup {NoUser, NoMed}

VARIABLES
  now,          \* datetime.utcnow()
  sched,        \* Reminder.scheduled_time
  status,       \* Reminder.status, as committed in the store
  medUser,      \* Reminder.medication.user
  subs,         \* the push_subscriptions table, as committed
  smtpOn,       \* _smtp_config.is_configured
  vapidOn,      \* _vapid_config.is_configured
  wpc,          \* the poller: "sleep" (time.sleep), "loop" (inside check_reminders),
                \* "dead" (run_worker left by an exception) or "stopped" (run_worker
                \* returned)
  wBatch,       \* due_reminders of the running tick
  wIdx,         \* position of the for loop in due_reminders
  wDirty,       \* reminders set to DUE in the poller's session, not yet committed
  wExpired,     \* expired_subscriptions of the fan-out the poller is in, between its
                \* last attempt and its deletions
  spc,          \* per stream client: "closed", "sleep" or "yield"
  sBatch,       \* per stream client: due_reminders of the running tick
  sIdx,         \* per stream client: position of the for loop (the reminder just yielded)
  wins,         \* per reminder: stream commits that wrote its DUE -> SENT
  events,       \* per stream client and reminder: events yielded on the client's
                \* connection
  emailCalls,   \* per reminder: calls of notifications.send_email by the poller
  fanouts,      \* per reminder: calls of _send_push_to_user by the poller
  wFailed,      \* reminders of the latest tick whose delivery hit a transient channel failure
  shutdownRequested, \* _shutdown_requested
  req,          \* per request thread of the API: the subscribe or unsubscribe call it
                \* is in, between the call's query and its commit
  last          \* what the latest step did, when it was a pass of _process_reminder,
                \* the opening of a stream or the end of a subscribe or unsubscribe call

vars == << now, sched, status, medUser, subs, smtpOn, vapidOn, wpc, wBatch, wIdx,
           wDirty, wExpired, spc, sBatch, sIdx, wins, events, emailCalls, fanouts, wFailed, req,
           shutdownRequested, last >>

\* What neither the poller nor a stream writes.
storeVars == << sched, medUser, smtpOn, vapidOn, req, shutdownRequested >>
workerVars == << wpc, wBatch, wIdx, wDirty, wExpired >>
streamVars == << spc, sBatch, sIdx, wins, events >>

\* ------------------------------------------------------------ helpers
Range(s) == { s[i] : i \in DOMAIN s }

Perms(S) == { s \in [1..Cardinality(S) -> S] : Range(s) = S }

Inc(n) == IF n < MaxCount THEN n + 1 ELSE n

StatusRank(s) ==
  CASE s = "PENDING" -> 0
    [] s = "DUE" -> 1
    [] s = "SENT" -> 2
    [] OTHER -> 3

\* A request thread that is in no call; last.call when no call ended.
NoCall == [ op |-> "none" ]

\* last when the latest step was none of these
NoEvent == [ rem |-> 0, email |-> "none", fanout |-> FALSE, push |-> << >>,
             pruned |-> {}, token |-> "none", event |-> "none", call |-> NoCall,
             raised |-> "none" ]

\* ------------------------------------------------------------ text
\* Strings are Python strings; only the operations the code applies are modelled.
UpperLetters == "ABCDEFGHIJKLMNOPQRSTUVWXYZ"
LowerLetters == "abcdefghijklmnopqrstuvwxyz"

LowerChar(c) ==
  IF \E i \in 1..26 : SubSeq(UpperLetters, i, i) = c
    THEN LET i == CHOOSE j \in 1..26 : SubSeq(UpperLetters, j, j) = c
         IN SubSeq(LowerLetters, i, i)
    ELSE c

\* str.lower()
RECURSIVE Lower(_)
Lower(s) ==
  IF Len(s) = 0 THEN ""
  ELSE IF Len(s) = 1 THEN LowerChar(s)
  ELSE LET h == Len(s) \div 2
       IN Lower(SubSeq(s, 1, h)) \o Lower(SubSeq(s, h + 1, Len(s)))

\* w in s
Contains(s, w) ==
  \E i \in 1..(Len(s) - Len(w) + 1) : SubSeq(s, i, i + Len(w) - 1) = w

\* s[:n]
Take(s, n) == IF Len(s) <= n THEN s ELSE SubSeq(s, 1, n)

EndpointCut == 50

\* MediRemindException.__str__
ExceptionStr(message, details) ==
  IF details # "" THEN message \o " | Details: " \o details ELSE message

\* str(PushNotificationError(endpoint, details))
PushErrorStr(endpoint, details) ==
  ExceptionStr("Failed to send push to " \o Take(endpoint, EndpointCut) \o "...", details)

\* ------------------------------------------------------------ channels
\* What the mail transport does with one message (smtplib, notifications.py:114-117).
SmtpOutcomes == {"accepted", "auth_failed", "smtp_error"}

\* send_email without the check of the SMTP configuration.
SendEmailUnchecked(configured, smtp) ==
  IF smtp = "accepted" THEN "sent" ELSE "raised"

\* send_email: "sent" (True returned) or "raised" (EmailDeliveryError)
SendEmail(configured, smtp) ==
  IF ~configured THEN "sent"
  ELSE IF smtp = "accepted" THEN "sent" ELSE "raised"

\* What pywebpush.webpush() does with one subscription: it returns, it raises
\* WebPushException with the push service's response, or the transport raises.
WireOutcomes ==
  { [kind |-> "ok", code |-> 201, text |-> ""],
    [kind |-> "http", code |-> 410, text |-> "WebPushException: Push failed: 410 Gone"],
    [kind |-> "http", code |-> 404, text |-> "WebPushException: Push failed: 404 Not Found"],
    [kind |-> "http", code |-> 503, text |-> "WebPushException: Push failed: 503 Service Unavailable"],
    [kind |-> "exc", code |-> 0, text |-> "SSL: certificate has expired"] }

\* The failure classes of section 4.3: gone for good, or anything else.
IsGone(w) == w.kind = "http" /\ w.code \in {404, 410}
IsTransient(w) == w.kind # "ok" /\ ~IsGone(w)

\* send_push_notification without the check of the VAPID configuration.
SendPushUnchecked(configured, endpoint, w) ==
  IF w.kind = "ok" THEN [result |-> "sent", text |-> ""]
  ELSE IF w.kind = "http" /\ w.code = 410
    THEN [result |-> "raised", text |-> PushErrorStr(endpoint, "Subscription expired")]
  ELSE IF w.kind = "http" /\ w.code = 404
    THEN [result |-> "raised", text |-> PushErrorStr(endpoint, "Subscription not found")]
  ELSE [result |-> "raised", text |-> PushErrorStr(endpoint, w.text)]

\* send_push_notification: "skipped" (False returned, nothing transmitted), "sent"
\* (True returned) or "raised" (PushNotificationError, text = str(e))
SendPushNotification(configured, endpoint, w) ==
  IF ~configured THEN [result |-> "skipped", text |-> ""]
  ELSE IF w.kind = "ok" THEN [result |-> "sent", text |-> ""]
  ELSE IF w.kind = "http" /\ w.code = 410
    THEN [result |-> "raised", text |-> PushErrorStr(endpoint, "Subscription expired")]
  ELSE IF w.kind = "http" /\ w.code = 404
    THEN [result |-> "raised", text |-> PushErrorStr(endpoint, "Subscription not found")]
  ELSE [result |-> "raised", text |-> PushErrorStr(endpoint, w.text)]

\* The test with its second alternative left out.
MarksExpiredOnly(text) == Contains(Lower(text), "expired")

\* The test of _send_push_to_user that puts a subscription on the expired list.
MarksExpired(text) ==
  Contains(Lower(text), "expired") \/ Contains(Lower(text), "not found")

\* PushSubscription.endpoint of row id: unique per row.
EndpointTag(id) == SubSeq("abcdefghij", id, id)
EndpointOf(id) ==
  IF id % 2 = 1 THEN "https://fcm.googleapis.com/fcm/send/" \o EndpointTag(id)
  ELSE "https://push.example.net/expired/" \o EndpointTag(id)
Endpoints == { EndpointOf(i) : i \in SubIds }

\* One pass of the for loop of _send_push_to_user, for every case it can meet:
\* the result of send_push_notification, and whether the except branch puts the
\* subscription on the expired list.
AttemptTable ==
  [ configured \in BOOLEAN |-> [ e \in Endpoints |-> [ w \in WireOutcomes |->
      LET a == SendPushNotification(configured, e, w)
      IN [ result |-> a.result,
           expired |-> a.result = "raised" /\ MarksExpired(a.text) ] ] ] ]

\* _get_user_push_subscriptions
UserSubscriptions(u) == { s \in subs : s.user = u }

\* What one pass of the for loop of _send_push_to_user does to subscription s.
PushAttempt(s, w) == AttemptTable[vapidOn][s.endpoint][w]

\* expired_subscriptions after the loop
ExpiredSubscriptions(rows, wires) ==
  { s \in rows : PushAttempt(s, wires[s.id]).expired }

\* success_count after the loop
SuccessCount(rows, wires) ==
  Cardinality({ s \in rows : PushAttempt(s, wires[s.id]).result # "raised" })

\* How the outcome of one attempt is recorded in last.push
AttemptClass(s, w) ==
  LET a == PushAttempt(s, w)
  IN IF a.result # "raised" THEN a.result
     ELSE IF IsGone(w) THEN "gone" ELSE "transient"

\* ------------------------------------------------------------ users
\* User.email_notifications: alice has opted in, bob has not (the column's default).
EmailNotifications(u) == u = "alice"

\* User.email.
UserEmail(u) == IF u = "alice" THEN "alice@example.com" ELSE "bob@example.com"

\* A poller that sends email to every user.
EmailAlways(u) == TRUE

\* user.email_notifications and user.email (worker.py:128)
EmailEnabled(u) == EmailNotifications(u) /\ UserEmail(u) # ""

\* ------------------------------------------------------------ the poller
\* The poller's query with its status filter left out.
QueryAnyStatusDue == { r \in Reminders : sched[r] <= now }

\* A filter that lets every scheduled time through.
DueAnyTime(t) == Reminders

\* The filter scheduled_time <= now of the poller's query.
DueBy(t) == { r \in Reminders : sched[r] <= t }

\* The query of check_reminders: PENDING and scheduled_time <= now.
QueryPendingDue == { r \in DueBy(now) : status[r] = "PENDING" }

\* A poller that writes the status the stream writes.
PollerStatusSent == "SENT"

\* reminder.status = models.ReminderStatus.DUE, the one status _process_reminder
\* writes.
PollerStatus == "DUE"

\* A commit that stores DUE for every reminder that is PENDING.
CommitAllPending(dirty) ==
  [ r \in Reminders |-> IF status[r] = "PENDING" THEN "DUE" ELSE status[r] ]

\* db.commit() of the poller's session: the pending status writes reach the store.
CommitDue(dirty) ==
  [ r \in Reminders |-> IF r \in dirty THEN PollerStatus ELSE status[r] ]

\* A fan-out that gives up at the first subscription that raises.
FanoutUntilFailure(rows, wires) ==
  { s \in rows : \A t \in rows : t.id < s.id => PushAttempt(t, wires[t.id]).result # "raised" }

\* The subscriptions one fan-out pass attempts: the for loop of _send_push_to_user
\* goes over every row of the query, whatever the earlier rows did.
FanoutTargets(rows, wires) == rows

\* What the push service would do with a transmission to each of the rows.
Wires(rows) == [ { s.id : s \in rows } -> WireOutcomes ]

\* A loop that never looks at the flag.
LoopForever == TRUE

\* The condition of the while loop of run_worker.
LoopCondition == ~shutdownRequested

\* processed_count of the running tick: one for each reminder the for loop has
\* gone through; it is what check_reminders returns, however the tick ends.
ProcessedCount == IF wIdx = 0 THEN 0 ELSE wIdx - 1

\* check_reminders from its start to the first reminder: the session is opened and
\* the due reminders are read, in the order the store returns them.
WorkerQuery ==
  /\ wpc = "sleep"
  /\ LoopCondition
  /\ \/ /\ QueryPendingDue = {}
        /\ last' = NoEvent
        /\ UNCHANGED workerVars
     \/ /\ QueryPendingDue # {}
        /\ \E b \in Perms(QueryPendingDue) :
             /\ wBatch' = b
             /\ last' = NoEvent
        /\ wpc' = "loop"
        /\ wIdx' = 1
        /\ wDirty' = {}
        /\ UNCHANGED wExpired
  /\ wFailed' = {}
  /\ UNCHANGED << now, status, subs, storeVars, streamVars, emailCalls, fanouts >>

\* An exception that check_reminders lets through ends run_worker, whose loop
\* catches KeyboardInterrupt only.
TickErrorEscapes(at) == "escaped"

\* The try of check_reminders encloses the query, the loop and the commit, and its
\* except Exception catches what any of them raises.
TickHandler(at) == "caught"

\* A handler that goes back to the sleep with the session as it was.
TickRaisesSessionKept(at, mail) ==
  /\ wpc' = "sleep"
  /\ last' = [NoEvent EXCEPT !.email = mail, !.raised = at]
  /\ UNCHANGED << wBatch, wIdx, wDirty, wExpired >>

\* An exception inside the try of check_reminders, raised at the query, in
\* _process_reminder ("processing") or at a commit: rollback, close, and back to
\* the sleep of run_worker.
TickRaises(at, mail) ==
  /\ wpc' = IF TickHandler(at) = "caught" THEN "sleep" ELSE "dead"
  /\ wBatch' = << >>
  /\ wIdx' = 0
  /\ wDirty' = {}
  /\ wExpired' = {}
  /\ last' = [NoEvent EXCEPT !.email = mail, !.raised = at]

\* _process_reminder raises before anything is sent.
WorkerAbort(r, mail) ==
  /\ TickRaises("processing", mail)
  /\ UNCHANGED << status, subs, emailCalls, fanouts, wFailed >>

\* _process_reminder for a medication without user: the status is set, nothing is sent.
ProcessOrphan(r) ==
  /\ wDirty' = wDirty \cup {r}
  /\ wIdx' = wIdx + 1
  /\ last' = [NoEvent EXCEPT !.rem = r]
  /\ UNCHANGED << wpc, wBatch, wExpired, status, subs, emailCalls, fanouts, wFailed >>

\* An EmailDeliveryError that is not caught leaves _process_reminder.
EmailErrorPropagates(mail) == IF mail = "raised" THEN "propagate" ELSE "continue"

\* The try/except around send_email in _process_reminder: EmailDeliveryError is
\* caught and logged, and the function goes on.
EmailHandler(mail) == "continue"

\* _process_reminder for user u: status, email, then _send_push_to_user with its
\* own commit when a subscription was put on the expired list; storeOk tells whether
\* the store accepts that commit.
ProcessFor(r, u, storeOk) ==
  \E smtp \in (IF EmailEnabled(u) /\ smtpOn THEN SmtpOutcomes ELSE {"accepted"}) :
  \E wires \in Wires(UserSubscriptions(u)) :
    LET rows == UserSubscriptions(u)
        mail == IF EmailEnabled(u) THEN SendEmail(smtpOn, smtp) ELSE "none"
        targets == FanoutTargets(rows, wires)
        expired == ExpiredSubscriptions(targets, wires)
        dirty == wDirty \cup {r}
        classes == [ i \in { s.id : s \in targets } |->
                     AttemptClass(CHOOSE s \in targets : s.id = i, wires[i]) ]
        failed == mail = "raised" \/ \E i \in DOMAIN classes : classes[i] = "transient"
    IN IF EmailHandler(mail) # "continue"
         THEN /\ WorkerAbort(r, mail)
         ELSE /\ emailCalls' = IF EmailEnabled(u)
                                 THEN [emailCalls EXCEPT ![r] = Inc(@)] ELSE emailCalls
              /\ fanouts' = [fanouts EXCEPT ![r] = Inc(@)]
              /\ IF storeOk
                   THEN /\ IF expired # {}
                             THEN /\ subs' = subs \ expired
                                  /\ status' = CommitDue(dirty)
                                  /\ wDirty' = {}
                             ELSE /\ UNCHANGED << subs, status >>
                                  /\ wDirty' = dirty
                        /\ wIdx' = wIdx + 1
                        /\ wFailed' = IF failed THEN wFailed \cup {r} ELSE wFailed
                        /\ last' = [ NoEvent EXCEPT !.rem = r, !.email = mail,
                                       !.fanout = TRUE, !.push = classes,
                                       !.pruned = { s.id : s \in expired },
                                       !.call = [ op |-> "fanout", push_count |->
                                                    SuccessCount(targets, wires) ] ]
                        /\ UNCHANGED << wpc, wBatch, wExpired >>
                   ELSE /\ expired # {}
                        /\ TickRaises("commit", "none")
                        /\ UNCHANGED << subs, status, wFailed >>

\* One pass of the for loop of check_reminders.
WorkerProcess ==
  /\ wpc = "loop"
  /\ wIdx <= Len(wBatch)
  /\ LET r == wBatch[wIdx]
     IN \/ /\ medUser[r] = NoMed
           /\ WorkerAbort(r, "none")
        \/ /\ medUser[r] = NoUser
           /\ ProcessOrphan(r)
        \/ /\ medUser[r] \in Users
           /\ ProcessFor(r, medUser[r], TRUE)
  /\ UNCHANGED << now, storeVars, streamVars >>

\* One pass of the for loop in which the commit of _send_push_to_user raises: the
\* deliveries are made, nothing is stored.
WorkerPruneFails ==
  /\ wpc = "loop"
  /\ wIdx <= Len(wBatch)
  /\ medUser[wBatch[wIdx]] \in Users
  /\ ProcessFor(wBatch[wIdx], medUser[wBatch[wIdx]], FALSE)
  /\ UNCHANGED << now, storeVars, streamVars >>

\* The query of check_reminders raises (the store is unreachable or locked).
WorkerQueryFails ==
  /\ wpc = "sleep"
  /\ LoopCondition
  /\ TickRaises("query", "none")
  /\ wFailed' = {}
  /\ UNCHANGED << now, status, subs, storeVars, streamVars, emailCalls, fanouts >>

\* The db.commit() that ends the batch raises.
WorkerCommitFails ==
  /\ wpc = "loop"
  /\ wIdx > Len(wBatch)
  /\ TickRaises("commit", "none")
  /\ UNCHANGED << now, status, subs, storeVars, streamVars, emailCalls, fanouts, wFailed >>

\* The db.commit() that ends the batch, then close and time.sleep.
WorkerCommit ==
  /\ wpc = "loop"
  /\ wIdx > Len(wBatch)
  /\ status' = CommitDue(wDirty)
  /\ wpc' = "sleep"
  /\ wBatch' = << >>
  /\ wIdx' = 0
  /\ wDirty' = {}
  /\ UNCHANGED wExpired
  /\ last' = NoEvent
  /\ UNCHANGED << now, subs, storeVars, streamVars, emailCalls, fanouts, wFailed >>

\* ------------------------------------------------------------ the stream
\* The stream's query with its status filter left out.
QueryAnyStatus == { r \in Reminders : medUser[r] # NoMed }

\* The query of notification_generator: every reminder with status DUE that the
\* join finds a medication for.
QueryDue == { r \in Reminders : status[r] = "DUE" /\ medUser[r] # NoMed }

\* A commit that stores SENT for every reminder that is DUE by then.
CommitSentAllDue(marked) ==
  [ r \in Reminders |-> IF status[r] = "DUE" THEN "SENT" ELSE status[r] ]

\* db.commit() of a stream session: the reminders marked SENT reach the store.
CommitSent(marked) == [ r \in Reminders |-> IF r \in marked THEN "SENT" ELSE status[r] ]

\* The credentials a client can present when it opens the stream.
Tokens == {"valid", "malformed", "expired", "no_sub", "unknown_user"}

\* _decode_jwt_token: the email of the token, or "raise" (HTTPException 401) when
\* jwt.decode raises JWTError or the payload has no sub claim.
DecodeJwtToken(tok) ==
  IF tok \in {"malformed", "expired", "no_sub"} THEN "raise"
  ELSE IF tok = "unknown_user" THEN "nobody@example.com"
  ELSE "alice@example.com"

\* get_user_by_email: is there a user row with this email
UserExists(email) == email = "alice@example.com"

\* get_current_user_from_token: "user", or "raise" (HTTPException 401)
GetCurrentUserFromToken(tok) ==
  IF DecodeJwtToken(tok) = "raise" THEN "raise"
  ELSE IF ~UserExists(DecodeJwtToken(tok)) THEN "raise"
  ELSE "user"

\* A generator that goes on to its loop whatever the validation did.
StreamAuthIgnored(tok) == "loop"

\* The head of notification_generator: on HTTPException one error event is
\* yielded and the generator returns; otherwise it enters its loop.
StreamAuth(tok) ==
  IF GetCurrentUserFromToken(tok) = "raise" THEN "error" ELSE "loop"

\* A client opens the stream and presents a token; last.token is "invalid" when
\* the token was any other than the valid one.
Connect(c) ==
  /\ spc[c] = "closed"
  /\ \E tok \in Tokens :
       /\ spc' = [spc EXCEPT ![c] = IF StreamAuth(tok) = "loop" THEN "sleep" ELSE "closed"]
       /\ last' = [NoEvent EXCEPT !.token = IF tok = "valid" THEN "none" ELSE "invalid",
                                  !.event = IF StreamAuth(tok) = "loop" THEN "none" ELSE "error"]
  /\ UNCHANGED << now, status, subs, storeVars, workerVars, sBatch, sIdx, wins, events,
                  emailCalls, fanouts, wFailed >>

\* The client goes away: the generator is closed where it is suspended, its finally
\* closes the session, and what the session had not committed is dropped.
Disconnect(c) ==
  /\ spc[c] \in {"sleep", "yield"}
  /\ spc' = [spc EXCEPT ![c] = "closed"]
  /\ sBatch' = [sBatch EXCEPT ![c] = << >>]
  /\ sIdx' = [sIdx EXCEPT ![c] = 0]
  /\ events' = [events EXCEPT ![c] = [r \in Reminders |-> 0]]
  /\ last' = NoEvent
  /\ UNCHANGED << wins, now, status, subs, storeVars, workerVars, emailCalls, fanouts, wFailed >>

\* One tick of the while loop up to its first suspension: the query, and with a
\* non-empty result the first event, at whose yield the task is suspended.
StreamQuery(c) ==
  /\ spc[c] = "sleep"
  /\ \/ /\ QueryDue = {}
        /\ last' = NoEvent
        /\ UNCHANGED streamVars
     \/ /\ QueryDue # {}
        /\ \E b \in Perms(QueryDue) :
             /\ sBatch' = [sBatch EXCEPT ![c] = b]
             /\ events' = [events EXCEPT ![c][b[1]] = Inc(@)]
             /\ last' = NoEvent
        /\ spc' = [spc EXCEPT ![c] = "yield"]
        /\ sIdx' = [sIdx EXCEPT ![c] = 1]
        /\ UNCHANGED wins
  /\ UNCHANGED << now, status, subs, storeVars, workerVars, emailCalls, fanouts, wFailed >>

\* The task resumes after a yield: the reminder just yielded is marked SENT in the
\* session; then the next event is yielded, or after the last one the session is
\* committed and closed and the task sleeps.
StreamResume(c) ==
  /\ spc[c] = "yield"
  /\ \/ /\ sIdx[c] < Len(sBatch[c])
        /\ sIdx' = [sIdx EXCEPT ![c] = @ + 1]
        /\ events' = [events EXCEPT ![c][sBatch[c][sIdx[c] + 1]] = Inc(@)]
        /\ last' = NoEvent
        /\ UNCHANGED << status, spc, sBatch, wins >>
     \/ /\ sIdx[c] = Len(sBatch[c])
        /\ status' = CommitSent(Range(sBatch[c]))
        /\ spc' = [spc EXCEPT ![c] = "sleep"]
        /\ sBatch' = [sBatch EXCEPT ![c] = << >>]
        /\ sIdx' = [sIdx EXCEPT ![c] = 0]
        /\ last' = NoEvent
        /\ wins' = [ r \in Reminders |->
                      IF r \in Range(sBatch[c]) THEN Inc(wins[r]) ELSE wins[r] ]
        /\ UNCHANGED events
  /\ UNCHANGED << now, subs, storeVars, workerVars, emailCalls, fanouts, wFailed >>

\* A generator whose exceptions end it.
StreamErrorEscapes(at) == "closed"

\* The except Exception of the stream's while loop: the error is logged and the
\* loop goes on to its sleep.
StreamHandler(at) == "sleep"

\* An exception inside the try of the stream's while loop, raised while an event is
\* built (the first of the tick, or the next after a yield): the except branch logs
\* it, the finally closes the session, whose SENT marks are dropped, and the task
\* sleeps; the events already yielded have gone to the client.
StreamRenderRaises(c) ==
  /\ \/ /\ spc[c] = "sleep"
        /\ QueryDue # {}
     \/ /\ spc[c] = "yield"
        /\ sIdx[c] < Len(sBatch[c])
  /\ spc' = [spc EXCEPT ![c] = StreamHandler("stream")]
  /\ sBatch' = [sBatch EXCEPT ![c] = << >>]
  /\ sIdx' = [sIdx EXCEPT ![c] = 0]
  /\ last' = [NoEvent EXCEPT !.raised = "stream"]
  /\ UNCHANGED << wins, events, now, status, subs, storeVars, workerVars, emailCalls,
                  fanouts, wFailed >>

\* The db.commit() of a stream tick raises after the last event was yielded: nothing
\* is stored.
StreamCommitFails(c) ==
  /\ spc[c] = "yield"
  /\ sIdx[c] = Len(sBatch[c])
  /\ spc' = [spc EXCEPT ![c] = StreamHandler("stream_commit")]
  /\ sBatch' = [sBatch EXCEPT ![c] = << >>]
  /\ sIdx' = [sIdx EXCEPT ![c] = 0]
  /\ last' = [NoEvent EXCEPT !.raised = "stream_commit"]
  /\ UNCHANGED << wins, events, now, status, subs, storeVars, workerVars, emailCalls,
                  fanouts, wFailed >>

\* ------------------------------------------------------------ the registry
\* p256dh_key and auth_key of a subscription request
KeySets == {"k1", "k2"}

\* The endpoints the calls of the request threads name.
CallEndpoints == { EndpointOf(1) }

\* An INSERT that no index checks.
InsertUnchecked(e) == TRUE

\* The unique index on PushSubscription.endpoint: an INSERT of endpoint e is
\* accepted only when no committed row has it; otherwise the commit raises.
InsertAllowed(e) == \A s \in subs : s.endpoint # e

\* The primary key the store gives a new row: above every id in the table.
NewRowIds == { i \in RowIds : \A s \in subs : i > s.id }

\* The lookup of unsubscribe without its owner filter.
UnsubscribeMatchAnyOwner(u, e) == { s \in subs : s.endpoint = e }

\* The lookup of subscribe: rows with the endpoint.
SubscribeMatch(e) == { s \in subs : s.endpoint = e }

\* The lookup of unsubscribe: rows with the endpoint that belong to the caller.
UnsubscribeMatch(u, e) == { s \in subs : s.endpoint = e /\ s.user = u }

\* .first(): the id of one matching row, 0 for None
First(rows) == IF rows = {} THEN {0} ELSE { s.id : s \in rows }

\* An update that leaves the owner as it was.
UpdatedKeysOnly(row, q) == [row EXCEPT !.keys = q.keys]

\* The existing branch of subscribe: owner and keys are overwritten in place.
UpdatedRow(row, q) == [row EXCEPT !.user = q.user, !.keys = q.keys]

\* The lookup of subscribe for current_user u, on request thread t.
SubscribeLookup(t, u) ==
  \E e \in CallEndpoints, k \in KeySets :
    \E f \in First(SubscribeMatch(e)) :
      req' = [req EXCEPT ![t] = [ op |-> "subscribe", user |-> u, endpoint |-> e,
                                  keys |-> k, found |-> f ]]

\* subscribe up to its lookup.
SubscribeQuery(t) ==
  /\ req[t] = NoCall
  /\ \E u \in Users : SubscribeLookup(t, u)
  /\ last' = NoEvent
  /\ UNCHANGED << now, sched, medUser, smtpOn, vapidOn, shutdownRequested, status, subs, workerVars,
                  streamVars, emailCalls, fanouts, wFailed >>

\* subscribe from the lookup to the response: the update or the insert reaches the
\* store at db.commit(); a commit that raises gives the caller a 500.
SubscribeCommit(t) ==
  /\ req[t].op = "subscribe"
  /\ LET q == req[t]
         rows == { s \in subs : s.id = q.found }
     IN \/ /\ q.found # 0
           /\ rows # {}
           /\ subs' = (subs \ rows) \cup { UpdatedRow(s, q) : s \in rows }
           /\ last' = [NoEvent EXCEPT !.call = [q EXCEPT !.op = "subscribed"]]
        \/ /\ q.found # 0
           /\ rows = {}
           /\ subs' = subs
           /\ last' = [NoEvent EXCEPT !.call = [q EXCEPT !.op = "subscribe_failed"]]
        \/ /\ q.found = 0
           /\ InsertAllowed(q.endpoint)
           /\ \E i \in NewRowIds :
                subs' = subs \cup { [ id |-> i, user |-> q.user, endpoint |-> q.endpoint,
                                      keys |-> q.keys ] }
           /\ last' = [NoEvent EXCEPT !.call = [q EXCEPT !.op = "subscribed"]]
        \/ /\ q.found = 0
           /\ ~InsertAllowed(q.endpoint)
           /\ subs' = subs
           /\ last' = [NoEvent EXCEPT !.call = [q EXCEPT !.op = "subscribe_failed"]]
  /\ req' = [req EXCEPT ![t] = NoCall]
  /\ UNCHANGED << now, sched, medUser, smtpOn, vapidOn, shutdownRequested, status, workerVars,
                  streamVars, emailCalls, fanouts, wFailed >>

\* The lookup of unsubscribe for current_user u, on request thread t.
UnsubscribeLookup(t, u) ==
  \E e \in CallEndpoints :
    \E f \in First(UnsubscribeMatch(u, e)) :
      req' = [req EXCEPT ![t] = [ op |-> "unsubscribe", user |-> u, endpoint |-> e,
                                  keys |-> "", found |-> f ]]

\* unsubscribe up to its lookup.
UnsubscribeQuery(t) ==
  /\ req[t] = NoCall
  /\ \E u \in Users : UnsubscribeLookup(t, u)
  /\ last' = NoEvent
  /\ UNCHANGED << now, sched, medUser, smtpOn, vapidOn, shutdownRequested, status, subs, workerVars,
                  streamVars, emailCalls, fanouts, wFailed >>

\* unsubscribe from the lookup to the response: the row found is deleted by its
\* primary key and the deletion committed; the response is the same in every case.
UnsubscribeCommit(t) ==
  /\ req[t].op = "unsubscribe"
  /\ LET q == req[t]
     IN /\ subs' = IF q.found # 0 THEN { s \in subs : s.id # q.found } ELSE subs
        /\ last' = [NoEvent EXCEPT !.call = [q EXCEPT !.op = "unsubscribed"]]
  /\ req' = [req EXCEPT ![t] = NoCall]
  /\ UNCHANGED << now, sched, medUser, smtpOn, vapidOn, shutdownRequested, status, workerVars,
                  streamVars, emailCalls, fanouts, wFailed >>

\* ------------------------------------------------------------ shutdown
\* _signal_handler, installed for SIGINT and SIGTERM: it sets the flag and returns,
\* so the interrupted code, a tick or the sleep, goes on where it was.
SignalHandler ==
  /\ wpc \in {"sleep", "loop"}
  /\ shutdownRequested' = TRUE
  /\ last' = NoEvent
  /\ UNCHANGED << now, sched, medUser, smtpOn, vapidOn, req, status, subs, workerVars,
                  streamVars, emailCalls, fanouts, wFailed >>

\* The while loop of run_worker finds the flag set at its head, after the sleep
\* that follows a tick: run_worker returns.
RunWorkerExit ==
  /\ wpc = "sleep"
  /\ ~LoopCondition
  /\ wpc' = "stopped"
  /\ last' = NoEvent
  /\ UNCHANGED << now, storeVars, status, subs, wBatch, wIdx, wDirty, wExpired,
                  streamVars, emailCalls, fanouts, wFailed >>

\* ------------------------------------------------------------ the fan-out in two steps
\* A flush that raises when a DELETE matches no row.
DeleteOutcomeStrict(table, rows) ==
  IF \A x \in rows : \E s \in table : s.id = x.id THEN "ok" ELSE "raise"

\* db.delete(row) for each of the rows and the flush of db.commit(): the DELETE is
\* by primary key, and one that matches no row any more is reported as a warning,
\* not as an exception.
DeleteOutcome(table, rows) == "ok"

\* The table after the DELETEs by primary key.
DeleteRows(table, rows) == { s \in table : \A x \in rows : x.id # s.id }

\* _process_reminder up to the end of the for loop of _send_push_to_user: the status
\* is set in the session, the email is sent, the subscriptions are read and every
\* one of them is attempted; nothing has been deleted yet.
FanoutAttempts ==
  /\ wpc = "loop"
  /\ wIdx <= Len(wBatch)
  /\ medUser[wBatch[wIdx]] \in Users
  /\ LET r == wBatch[wIdx]
         u == medUser[r]
     IN \E smtp \in (IF EmailEnabled(u) /\ smtpOn THEN SmtpOutcomes ELSE {"accepted"}) :
        \E wires \in Wires(UserSubscriptions(u)) :
          LET rows == UserSubscriptions(u)
              mail == IF EmailEnabled(u) THEN SendEmail(smtpOn, smtp) ELSE "none"
              targets == FanoutTargets(rows, wires)
              classes == [ i \in { s.id : s \in targets } |->
                           AttemptClass(CHOOSE s \in targets : s.id = i, wires[i]) ]
              failed == mail = "raised" \/ \E i \in DOMAIN classes : classes[i] = "transient"
          IN IF EmailHandler(mail) # "continue"
               THEN WorkerAbort(r, mail)
               ELSE /\ emailCalls' = IF EmailEnabled(u)
                                       THEN [emailCalls EXCEPT ![r] = Inc(@)] ELSE emailCalls
                    /\ fanouts' = [fanouts EXCEPT ![r] = Inc(@)]
                    /\ wDirty' = wDirty \cup {r}
                    /\ wExpired' = ExpiredSubscriptions(targets, wires)
                    /\ wpc' = "prune"
                    /\ wFailed' = IF failed THEN wFailed \cup {r} ELSE wFailed
                    /\ last' = [ NoEvent EXCEPT !.rem = r, !.email = mail,
                                   !.fanout = TRUE, !.push = classes,
                                   !.call = [ op |-> "fanout", push_count |->
                                                SuccessCount(targets, wires) ] ]
                    /\ UNCHANGED << wBatch, wIdx, status, subs >>
  /\ UNCHANGED << now, storeVars, streamVars >>

\* The end of _send_push_to_user: the expired subscriptions are deleted and, when
\* there were any, the session is committed, once; then the for loop of
\* check_reminders goes on. last.call tells how many commits were issued and which
\* of the rows were no longer in the store.
FanoutPrune ==
  /\ wpc = "prune"
  /\ IF wExpired = {}
       THEN /\ wpc' = "loop"
            /\ wIdx' = wIdx + 1
            /\ last' = [NoEvent EXCEPT !.call = [ op |-> "prune", commits |-> 0,
                                                   missing |-> {} ]]
            /\ UNCHANGED << wBatch, wDirty, wExpired, subs, status >>
       ELSE IF DeleteOutcome(subs, wExpired) = "ok"
         THEN /\ subs' = DeleteRows(subs, wExpired)
              /\ status' = CommitDue(wDirty)
              /\ wDirty' = {}
              /\ wExpired' = {}
              /\ wpc' = "loop"
              /\ wIdx' = wIdx + 1
              /\ last' = [NoEvent EXCEPT
                            !.pruned = { x.id : x \in wExpired },
                            !.call = [ op |-> "prune", commits |-> 1,
                                       missing |-> { x.id : x \in wExpired }
                                                     \ { t.id : t \in subs } ]]
              /\ UNCHANGED wBatch
         ELSE /\ TickRaises("commit", "none")
              /\ UNCHANGED << subs, status >>
  /\ UNCHANGED << now, storeVars, streamVars, emailCalls, fanouts, wFailed >>

\* ------------------------------------------------------------ calls
\* Python's None where a string is expected
None == "<None>"

\* bool(s) of a string or None
Truthy(s) == s # None /\ s # ""

\* s or d
OrElse(s, d) == IF Truthy(s) THEN s ELSE d

EmailLogCut == 200

\* _mock_send_email: the lines it logs (the rulers left out)
MockSendEmail(to, subject, body) ==
  << "[MOCK EMAIL] To: " \o to,
     "Subject: " \o subject,
     IF Len(body) > EmailLogCut THEN "Body: " \o Take(body, EmailLogCut) \o "..."
     ELSE "Body: " \o body >>

\* One call of send_email: its result, whether smtplib.SMTP was opened, and what
\* the mock logged.
SendEmailCall(to, subject, body, configured, smtp) ==
  [ result |-> SendEmail(configured, smtp),
    session |-> configured,
    log |-> IF configured THEN << >> ELSE MockSendEmail(to, subject, body) ]

Fifty == "0123456789012345678901234567890123456789012345678<"
Recipients == {"", "alice@example.com", "not an address"}
Subjects == {"", "Medication Reminder: Warfarin"}
Bodies == {"", "<div>Time to take your medication</div>",
           Fifty \o Fifty \o Fifty \o Fifty \o "!"}

\* The medications a payload is built for.
Medications ==
  [ id : {"7"}, name : {"Warfarin", "Vitamin D"}, dosage : {"5mg"},
    instructions : {None, "", "test", "Take As Directed", "Take with food."},
    priority : {"NORMAL", "HIGH"} ]

\* The payload send_push_notification builds from the arguments _send_push_to_user
\* passes for a medication.
PushPayload(med) ==
  [ title |-> "[pill] " \o med.name,
    body |-> "Time to take " \o med.dosage \o " - "
               \o OrElse(med.instructions, "Take as directed"),
    icon |-> "/icons/pill-icon.png",
    badge |-> "/icons/badge.png",
    tag |-> "med-" \o med.id,
    data |-> [ url |-> "/medications" ] ]

\* The event notification_generator builds for a reminder of a medication.
StreamPayload(med) ==
  LET isHighRisk == med.priority = "HIGH"
      friendly == "It's time for your " \o med.name \o " (" \o med.dosage \o ")"
  IN [ id |-> 1,
       medicationName |-> med.name,
       dosage |-> med.dosage,
       instructions |-> OrElse(med.instructions, "Take as directed"),
       scheduledTime |-> "2026-01-01T08:00:00",
       message |-> IF Truthy(med.instructions)
                      /\ Lower(med.instructions) \notin {"test", "take as directed"}
                     THEN friendly \o " - " \o med.instructions
                     ELSE friendly,
       isHighRisk |-> isHighRisk,
       disclaimer |-> IF isHighRisk
                        THEN "This is an important medication. If you've missed this dose, please consult your healthcare provider before adjusting your schedule."
                        ELSE None,
       actionLabel |-> "Mark as Taken" ]

\* send_email is called.
CallSendEmail ==
  /\ \E to \in Recipients, subject \in Subjects, body \in Bodies, smtp \in SmtpOutcomes :
       last' = [NoEvent EXCEPT !.call =
                  [ op |-> "send_email", to |-> to, subject |-> subject, body |-> body,
                    smtp |-> smtp,
                    out |-> SendEmailCall(to, subject, body, smtpOn, smtp) ]]
  /\ UNCHANGED << now, status, subs, storeVars, workerVars, streamVars, emailCalls,
                  fanouts, wFailed >>

\* The push payload and the stream event are built for a medication.
BuildPayloads ==
  /\ \E med \in Medications :
       last' = [NoEvent EXCEPT !.call =
                  [ op |-> "payloads", med |-> med, push |-> PushPayload(med),
                    stream |-> StreamPayload(med) ]]
  /\ UNCHANGED << now, status, subs, storeVars, workerVars, streamVars, emailCalls,
                  fanouts, wFailed >>

\* ------------------------------------------------------------ creation
Digits == "0123456789"

\* The string is one that int() reads as a non-negative number (signs, blanks and
\* underscores are not among the inputs).
IsDigits(p) ==
  /\ Len(p) > 0
  /\ \A i \in 1..Len(p) : \E d \in 1..10 : SubSeq(Digits, d, d) = SubSeq(p, i, i)

\* int(p) of a digit string
RECURSIVE IntOf(_)
IntOf(p) ==
  IF Len(p) = 0 THEN 0
  ELSE LET c == SubSeq(p, Len(p), Len(p))
           d == CHOOSE k \in 1..10 : SubSeq(Digits, k, k) = c
       IN 10 * IntOf(SubSeq(p, 1, Len(p) - 1)) + (d - 1)

\* time_str.split(":")
RECURSIVE SplitColon(_)
SplitColon(t) ==
  IF ~Contains(t, ":") THEN << t >>
  ELSE LET i == CHOOSE j \in 1..Len(t) :
                  /\ SubSeq(t, j, j) = ":"
                  /\ \A k \in 1..(j - 1) : SubSeq(t, k, k) # ":"
       IN << SubSeq(t, 1, i - 1) >> \o SplitColon(SubSeq(t, i + 1, Len(t)))

ValueError == -1
MinutesPerHour == 60
HoursPerDay == 24

\* hour, minute = map(int, time_str.split(":")) and datetime.time(hour, minute):
\* the minute of today the reminder is scheduled at, or ValueError.
ParseTime(t) ==
  LET parts == SplitColon(t)
  IN IF Len(parts) # 2 THEN ValueError
     ELSE IF ~IsDigits(parts[1]) \/ ~IsDigits(parts[2]) THEN ValueError
     ELSE LET hour == IntOf(parts[1])
              minute == IntOf(parts[2])
          IN IF hour >= HoursPerDay \/ minute >= MinutesPerHour THEN ValueError
             ELSE hour * MinutesPerHour + minute

\* The time strings a request carries.
TimeStrings == {"00:00", "0:1", "24:00", "00:60", "00:01:00", "ab"}

TimeTable == [ t \in TimeStrings |-> ParseTime(t) ]

MaxTimes == 2
TimeLists == UNION { [1..n -> TimeStrings] : n \in 0..MaxTimes }

\* Offsets of test_trigger's minutes parameter.
MinuteOffsets == {0 - 1, 0, 1}

\* Reminder rows that are in the store from the start; the other identifiers are
\* given to the rows the endpoints create.
Preexisting == {1}
Creatable == Reminders \ Preexisting

\* Identifiers not yet given to a row.
FreeIds == { r \in Creatable : status[r] = "NONE" }

\* The rows are inserted with increasing identifiers.
RECURSIVE InsertReminders(_, _, _, _)
InsertReminders(times, u, id, st) ==
  IF Len(times) = 0 THEN st
  ELSE InsertReminders(Tail(times), u, id + 1,
         [ sched |-> [st.sched EXCEPT ![id] = Head(times)],
           status |-> [st.status EXCEPT ![id] = "PENDING"],
           medUser |-> [st.medUser EXCEPT ![id] = u] ])

\* POST /medications by user u: one PENDING reminder per time string that parses,
\* the others are skipped.
CreateMedication(u, reminders) ==
  LET parsed == [ i \in 1..Len(reminders) |-> TimeTable[reminders[i]] ]
      valid == SelectSeq(parsed, LAMBDA m : m # ValueError)
  IN /\ Len(valid) <= Cardinality(FreeIds)
     /\ LET first == IF FreeIds = {} THEN 0
                     ELSE CHOOSE r \in FreeIds : \A q \in FreeIds : r <= q
            st == InsertReminders(valid, u, first,
                    [ sched |-> sched, status |-> status, medUser |-> medUser ])
        IN /\ sched' = st.sched
           /\ status' = st.status
           /\ medUser' = st.medUser
     /\ last' = NoEvent
     /\ UNCHANGED << now, subs, smtpOn, vapidOn, shutdownRequested, req, workerVars, streamVars,
                     emailCalls, fanouts, wFailed >>

\* The rows test_trigger commits for current_user u.
TestTriggerRows(u, minutes) ==
  /\ FreeIds # {}
  /\ LET id == CHOOSE r \in FreeIds : \A q \in FreeIds : r <= q
     IN /\ sched' = [sched EXCEPT ![id] = now + minutes]
        /\ status' = [status EXCEPT ![id] = "PENDING"]
        /\ medUser' = [medUser EXCEPT ![id] = u]

\* POST /medications/test-trigger by user u: one PENDING reminder at now + minutes.
TestTrigger(u, minutes) ==
  /\ TestTriggerRows(u, minutes)
  /\ last' = NoEvent
  /\ UNCHANGED << now, subs, smtpOn, vapidOn, shutdownRequested, req, workerVars, streamVars,
                  emailCalls, fanouts, wFailed >>

\* ------------------------------------------------------------ protected requests
\* What a request carries as its Authorization header: one of the tokens, or none.
Credentials == Tokens \cup {"missing"}

ProtectedEndpoints == {"test_trigger", "subscribe", "unsubscribe"}

\* A dependency that lets every request through as alice.
GetCurrentUserUnchecked(cred) == "alice"

\* oauth2_scheme and get_current_user: the user of the token, or "raise"
\* (HTTPException 401) when there is no bearer token, when the token does not
\* decode, or when no user has its email.
GetCurrentUser(cred) ==
  IF cred = "missing" THEN "raise"
  ELSE IF DecodeJwtToken(cred) = "raise" THEN "raise"
  ELSE IF ~UserExists(DecodeJwtToken(cred)) THEN "raise"
  ELSE "alice"

\* A request to a protected endpoint arrives on thread t and its dependencies are
\* resolved: on 401 the endpoint function is not called.
ProtectedRequest(t) ==
  /\ req[t] = NoCall
  /\ \E endpoint \in ProtectedEndpoints, cred \in Credentials :
       LET user == GetCurrentUser(cred)
           code == IF user = "raise" THEN "401" ELSE "pass"
       IN /\ req' = IF user = "raise" THEN req
                    ELSE [req EXCEPT ![t] = [ op |-> "authorized", user |-> user,
                                              endpoint |-> endpoint, keys |-> "",
                                              found |-> 0 ]]
          /\ last' = [NoEvent EXCEPT
                        !.token = IF cred = "valid" THEN "none" ELSE "invalid",
                        !.call = [ op |-> "request", endpoint |-> endpoint,
                                   response |-> code ]]
  /\ UNCHANGED << now, sched, medUser, smtpOn, vapidOn, shutdownRequested, status, subs, workerVars,
                  streamVars, emailCalls, fanouts, wFailed >>

\* The body of test_trigger for the authenticated user.
AuthorizedTestTrigger(t) ==
  /\ req[t].op = "authorized"
  /\ req[t].endpoint = "test_trigger"
  /\ \E minutes \in MinuteOffsets : TestTriggerRows(req[t].user, minutes)
  /\ req' = [req EXCEPT ![t] = NoCall]
  /\ last' = NoEvent
  /\ UNCHANGED << now, subs, smtpOn, vapidOn, shutdownRequested, workerVars, streamVars,
                  emailCalls, fanouts, wFailed >>

\* subscribe for the authenticated user, up to its lookup.
AuthorizedSubscribe(t) ==
  /\ req[t].op = "authorized"
  /\ req[t].endpoint = "subscribe"
  /\ SubscribeLookup(t, req[t].user)
  /\ last' = NoEvent
  /\ UNCHANGED << now, sched, medUser, smtpOn, vapidOn, shutdownRequested, status, subs, workerVars,
                  streamVars, emailCalls, fanouts, wFailed >>

\* unsubscribe for the authenticated user, up to its lookup.
AuthorizedUnsubscribe(t) ==
  /\ req[t].op = "authorized"
  /\ req[t].endpoint = "unsubscribe"
  /\ UnsubscribeLookup(t, req[t].user)
  /\ last' = NoEvent
  /\ UNCHANGED << now, sched, medUser, smtpOn, vapidOn, shutdownRequested, status, subs, workerVars,
                  streamVars, emailCalls, fanouts, wFailed >>

\* ------------------------------------------------------------ the clock
Advance ==
  /\ now < MaxTime
  /\ now' = now + 1
  /\ last' = NoEvent
  /\ UNCHANGED << status, subs, storeVars, workerVars, streamVars,
                  emailCalls, fanouts, wFailed >>

\* ------------------------------------------------------------ specification
\* Reminders are created PENDING (medications.py:57-61, 118-122); the registry holds
\* at most one row per endpoint.
Init ==
  /\ now = 0
  /\ sched \in [Reminders -> Times]
  /\ sched[1] = 0
  /\ \A r \in Reminders : r > 1 => sched[r - 1] <= sched[r]
  /\ status = [r \in Reminders |-> "PENDING"]
  /\ medUser \in [Reminders -> Owners]
  /\ \E owner \in [SubIds -> Users] :
       subs = { [id |-> i, user |-> owner[i], endpoint |-> EndpointOf(i), keys |-> "k0"] :
                i \in SubIds }
  /\ smtpOn \in BOOLEAN
  /\ vapidOn \in BOOLEAN
  /\ wpc = "sleep"
  /\ wBatch = << >>
  /\ wIdx = 0
  /\ wDirty = {}
  /\ wExpired = {}
  /\ spc = [c \in Clients |-> "closed"]
  /\ sBatch = [c \in Clients |-> << >>]
  /\ sIdx = [c \in Clients |-> 0]
  /\ wins = [r \in Reminders |-> 0]
  /\ events = [c \in Clients |-> [r \in Reminders |-> 0]]
  /\ emailCalls = [r \in Reminders |-> 0]
  /\ fanouts = [r \in Reminders |-> 0]
  /\ wFailed = {}
  /\ req = [t \in Threads |-> NoCall]
  /\ shutdownRequested = FALSE
  /\ last = NoEvent

Next ==
  \/ WorkerQuery
  \/ WorkerProcess
  \/ WorkerCommit
  \/ \E c \in Clients : Connect(c)
  \/ \E c \in Clients : Disconnect(c)
  \/ \E c \in Clients : StreamQuery(c)
  \/ \E c \in Clients : StreamResume(c)
  \/ Advance

Spec == Init /\ [][Next]_vars

\* run_worker calls check_reminders again after every sleep, for as long as the
\* process lives: the poller's steps are never postponed for ever.
FairSpec ==
  Spec /\ WF_vars(WorkerQuery) /\ WF_vars(WorkerProcess) /\ WF_vars(WorkerCommit)

\* The poller with a store that can refuse its query and its commits.
FaultNext ==
  \/ WorkerQuery
  \/ WorkerProcess
  \/ WorkerCommit
  \/ WorkerQueryFails
  \/ WorkerPruneFails
  \/ WorkerCommitFails
  \/ Advance

FaultSpec == Init /\ [][FaultNext]_vars

\* The user marks a reminder that was announced as taken or skipped: an action
\* outside the poller and the stream, committed on its own.
UserAction(r) ==
  /\ status[r] \in {"DUE", "SENT"}
  /\ \E v \in {"TAKEN", "SKIPPED"} : status' = [status EXCEPT ![r] = v]
  /\ last' = NoEvent
  /\ UNCHANGED << now, subs, storeVars, workerVars, streamVars, emailCalls, fanouts,
                  wFailed >>

\* The poller and the streams with no mail transport and no push keys.
UserInit ==
  /\ Init
  /\ ~smtpOn
  /\ ~vapidOn

UserNext ==
  \/ Next
  \/ \E r \in Reminders : UserAction(r)

\* The poller and the streams next to the user's actions on announced reminders.
UserSpec == UserInit /\ [][UserNext]_vars

\* The store holds one reminder, with or without its medication and user; the
\* endpoints create the others while the poller and the streams run.
LifeInit ==
  /\ now = 0
  /\ sched \in [Reminders -> Times]
  /\ \A r \in Creatable : sched[r] = 0
  /\ status = [r \in Reminders |-> IF r \in Preexisting THEN "PENDING" ELSE "NONE"]
  /\ medUser \in [Reminders -> Owners]
  /\ \A r \in Creatable : medUser[r] = NoMed
  /\ subs = { [id |-> i, user |-> "alice", endpoint |-> EndpointOf(i), keys |-> "k0"] :
              i \in SubIds }
  /\ smtpOn = FALSE
  /\ vapidOn = FALSE
  /\ wpc = "sleep"
  /\ wBatch = << >>
  /\ wIdx = 0
  /\ wDirty = {}
  /\ wExpired = {}
  /\ spc = [c \in Clients |-> "closed"]
  /\ sBatch = [c \in Clients |-> << >>]
  /\ sIdx = [c \in Clients |-> 0]
  /\ wins = [r \in Reminders |-> 0]
  /\ events = [c \in Clients |-> [r \in Reminders |-> 0]]
  /\ emailCalls = [r \in Reminders |-> 0]
  /\ fanouts = [r \in Reminders |-> 0]
  /\ wFailed = {}
  /\ req = [t \in Threads |-> NoCall]
  /\ shutdownRequested = FALSE
  /\ last = NoEvent

LifeNext ==
  \/ \E u \in Users, reminders \in TimeLists : CreateMedication(u, reminders)
  \/ \E u \in Users, minutes \in MinuteOffsets : TestTrigger(u, minutes)
  \/ WorkerQuery
  \/ WorkerProcess
  \/ WorkerCommit
  \/ \E c \in Clients : Connect(c)
  \/ \E c \in Clients : Disconnect(c)
  \/ \E c \in Clients : StreamQuery(c)
  \/ \E c \in Clients : StreamResume(c)
  \/ Advance

LifeSpec == LifeInit /\ [][LifeNext]_vars

\* run_worker polls for as long as the process lives.
LifeFairSpec ==
  LifeSpec /\ WF_vars(WorkerQuery) /\ WF_vars(WorkerProcess) /\ WF_vars(WorkerCommit)

\* Requests to the protected endpoints, with and without credentials, on the
\* request threads.
AuthNext ==
  \/ \E t \in Threads : ProtectedRequest(t)
  \/ \E t \in Threads : AuthorizedTestTrigger(t)
  \/ \E t \in Threads : AuthorizedSubscribe(t)
  \/ \E t \in Threads : AuthorizedUnsubscribe(t)
  \/ \E t \in Threads : SubscribeCommit(t)
  \/ \E t \in Threads : UnsubscribeCommit(t)
  \/ Advance

AuthSpec == LifeInit /\ [][AuthNext]_vars

\* The poller and the streams, whose ticks can raise; no mail transport, no push
\* keys.
StreamFaultInit ==
  /\ UserInit
  /\ \A s \in subs : s.user = "alice"

\* The store is available; building an event can raise.
RenderFaultNext ==
  \/ Next
  \/ \E c \in Clients : StreamRenderRaises(c)

RenderFaultSpec == StreamFaultInit /\ [][RenderFaultNext]_vars

StreamFaultNext ==
  \/ RenderFaultNext
  \/ \E c \in Clients : StreamCommitFails(c)

StreamFaultSpec == StreamFaultInit /\ [][StreamFaultNext]_vars

\* Poller and streams at one point in time, each with the failures its tick can
\* meet.
TickFaultNext ==
  \/ WorkerQuery
  \/ WorkerProcess
  \/ WorkerCommit
  \/ \E c \in Clients : Connect(c)
  \/ \E c \in Clients : Disconnect(c)
  \/ \E c \in Clients : StreamQuery(c)
  \/ \E c \in Clients : StreamResume(c)
  \/ \E c \in Clients : StreamRenderRaises(c)
  \/ \E c \in Clients : StreamCommitFails(c)
  \/ WorkerQueryFails
  \/ WorkerPruneFails
  \/ WorkerCommitFails

TickFaultInit ==
  /\ Init
  /\ ~smtpOn
  /\ vapidOn
  /\ \A s \in subs : s.user = "alice"
  /\ \A r \in Reminders : medUser[r] = "alice"

TickFaultSpec == TickFaultInit /\ [][TickFaultNext]_vars

\* The worker process under signals, with a store that can refuse its query and
\* its commits; a tick that has started runs on, and the loop head is reached after
\* every sleep.
ShutdownNext ==
  \/ FaultNext
  \/ SignalHandler
  \/ RunWorkerExit

ShutdownSpec == Init /\ [][ShutdownNext]_vars

ShutdownFairSpec ==
  /\ ShutdownSpec
  /\ WF_vars(WorkerQuery)
  /\ WF_vars(WorkerProcess)
  /\ WF_vars(WorkerCommit)
  /\ WF_vars(RunWorkerExit)

\* Poller and streams with every channel setting, where each connected stream task
\* is scheduled again after its sleep and is resumed after each event it yields.
SentInit ==
  /\ Init
  /\ \A s \in subs : s.user = "alice"
  /\ \A r \in Reminders : medUser[r] \in Users

SentSpec == SentInit /\ [][Next]_vars

SentFairSpec ==
  /\ SentSpec
  /\ \A c \in Clients : WF_vars(StreamQuery(c)) /\ WF_vars(StreamResume(c))

\* The channel functions called on their own, over their inputs.
CallInit ==
  /\ Init
  /\ vapidOn
  /\ \A r \in Reminders : medUser[r] = "alice" /\ sched[r] = 0

CallNext ==
  \/ CallSendEmail
  \/ BuildPayloads

CallSpec == CallInit /\ [][CallNext]_vars

\* The registry under subscribe and unsubscribe calls of concurrent request
\* threads, with the poller pruning it.
RegistryInit ==
  /\ Init
  /\ ~smtpOn
  /\ vapidOn
  /\ \A r \in Reminders : medUser[r] = medUser[1] /\ medUser[r] \in Users
  /\ \A r \in Reminders : r > 1 => sched[r] = MaxTime

RegistryNext ==
  \/ WorkerQuery
  \/ WorkerProcess
  \/ WorkerCommit
  \/ \E t \in Threads : SubscribeQuery(t)
  \/ \E t \in Threads : SubscribeCommit(t)
  \/ \E t \in Threads : UnsubscribeQuery(t)
  \/ \E t \in Threads : UnsubscribeCommit(t)

RegistrySpec == RegistryInit /\ [][RegistryNext]_vars

\* The poller with its fan-out in two steps, next to unsubscribe calls of the
\* request threads.
PruneNext ==
  \/ WorkerQuery
  \/ FanoutAttempts
  \/ FanoutPrune
  \/ WorkerCommit
  \/ \E t \in Threads : UnsubscribeQuery(t)
  \/ \E t \in Threads : UnsubscribeCommit(t)
  \/ Advance

PruneSpec == RegistryInit /\ [][PruneNext]_vars

\* ------------------------------------------------------------ claims
SubIdsOf(u) == { s.id : s \in { t \in subs : t.user = u } }

\* The step is one pass of _process_reminder that did not raise.
IsProcessStep == wpc = "loop" /\ wpc' = "loop" /\ wIdx' = wIdx + 1

\* The step is the commit that ends a batch.
IsTickCommit ==
  wpc = "loop" /\ wpc' = "sleep" /\ wIdx > Len(wBatch) /\ last'.raised = "none"

\* The step is the query that starts a batch.
IsTickQuery == wpc = "sleep" /\ wpc' = "loop"

\* C1: with several stream clients connected, at most one of them wins the
\* DUE -> SENT transition of a reminder, so that a reminder is emitted by one client
\* only: no reminder has its SENT committed by two stream ticks that both emitted it.
C1_OneStreamWinner == \A r \in Reminders : wins[r] <= 1

C3_NoDuplicateDelivery ==
  \A r \in Reminders : emailCalls[r] <= 1 /\ fanouts[r] <= 1

\* C4: no step of the poller or of a stream client moves a stored status backwards
\* along PENDING -> DUE -> SENT.
C4_StatusMonotonic ==
  [][ \A r \in Reminders : StatusRank(status'[r]) >= StatusRank(status[r]) ]_vars

C4_Witness ==
  /\ wpc = "loop"
  /\ \E r \in Reminders : status[r] = "SENT"
  /\ \E c \in Clients : spc[c] = "yield"

\* C5: a reminder whose delivery hit a transient channel failure in a tick stays
\* actionable for the poller, whose next tick attempts it again: while the poller
\* sleeps after that tick the reminder is still PENDING, the only status the
\* poller's query selects.
C5_RetriedNextTick ==
  wpc = "sleep" => \A r \in wFailed : status[r] = "PENDING"

C7_TransientRetained ==
  \A k \in DOMAIN last.push :
    last.push[k] = "transient" => \E s \in subs : s.id = k

\* C8: a reminder that is due and can be processed reaches DUE in some tick, also
\* when another reminder of its batch makes every tick raise.
C8_BadRowDoesNotBlock ==
  \A r \in Reminders :
    (status[r] = "PENDING" /\ sched[r] <= now /\ medUser[r] # NoMed)
      ~> (status[r] # "PENDING")

\* C9: when send_email raises EmailDeliveryError for a reminder, the same pass still
\* sets the reminder to DUE and performs the push fan-out over every subscription of
\* the user, the tick is not abandoned, and its commit stores the transition.
C9_EmailFailureIndependent ==
  [][ /\ (wpc = "loop" /\ last'.email = "raised") =>
           /\ IsProcessStep
           /\ last'.rem = wBatch[wIdx]
           /\ last'.fanout
           /\ DOMAIN last'.push = SubIdsOf(medUser[wBatch[wIdx]])
           /\ wBatch[wIdx] \in wDirty' \/ status'[wBatch[wIdx]] = "DUE"
           /\ wBatch[wIdx] \in wFailed'
      /\ IsTickCommit =>
           \A r \in Range(wBatch) \cap wFailed : status'[r] \in {"DUE", "SENT"}
    ]_vars

C9_Witness ==
  /\ ~vapidOn
  /\ wpc = "sleep"
  /\ \E r \in wFailed : status[r] = "DUE" /\ fanouts[r] = 1 /\ emailCalls[r] = 1

\* C10: a stream tick selects only reminders that are DUE in the store when its query
\* runs, so a reminder whose SENT is committed is in no later tick's events; a tick
\* yields each reminder of its result once and its commit leaves them SENT.
C10_SentNotReEmitted ==
  [][ \A c \in Clients :
        /\ (spc[c] = "sleep" /\ spc'[c] = "yield") =>
             /\ \A r \in Range(sBatch'[c]) : status[r] = "DUE"
             /\ Cardinality(Range(sBatch'[c])) = Len(sBatch'[c])
             /\ sIdx'[c] = 1
        /\ (spc[c] = "yield" /\ spc'[c] = "yield") =>
             /\ sBatch'[c] = sBatch[c]
             /\ sIdx'[c] \in {sIdx[c], sIdx[c] + 1}
        /\ (spc[c] = "yield" /\ spc'[c] = "sleep") =>
             /\ sIdx[c] = Len(sBatch[c])
             /\ \A r \in Range(sBatch[c]) : status'[r] = "SENT"
    ]_vars

C10_Witness ==
  /\ \A c \in Clients : spc[c] = "sleep"
  /\ \E r \in Reminders : status[r] = "SENT" /\ wins[r] = 1

\* C11: when the token presented at stream open is invalid or expired, the feed
\* yields one error event and ends: the connection is closed, it has no query result
\* and no position in one, it has emitted no reminder event, and no reminder status
\* is changed by the step.
C11_InvalidTokenClosesFeed ==
  [][ (last'.token = "invalid") =>
        /\ last'.event = "error"
        /\ spc' = spc
        /\ \A c \in Clients : spc[c] = "closed" => sBatch'[c] = << >> /\ sIdx'[c] = 0
        /\ sBatch' = sBatch
        /\ wins' = wins
        /\ status' = status
    ]_vars

C11_Witness ==
  /\ last.token = "invalid"
  /\ last.event = "error"
  /\ \E r \in Reminders : status[r] = "DUE"
  /\ \A c \in Clients : spc[c] = "closed"

\* C12: the registry holds at most one row per endpoint URL, whatever the
\* interleaving of subscribe calls, unsubscribe calls and poller pruning.
C12_OneRowPerEndpoint ==
  \A s1 \in subs : \A s2 \in subs : s1.endpoint = s2.endpoint => s1 = s2

C12_Witness ==
  /\ last.call.op = "subscribe_failed"
  /\ last.call.found = 0
  /\ \E s \in subs : s.endpoint = last.call.endpoint /\ s.id > NumSubs

\* C13: a subscribe(user, E, K) call that succeeds leaves exactly one row with
\* endpoint E, owned by the user and with keys K, so the user's subscriptions hold
\* exactly one row with E and K; when E was registered before, it is the same row
\* (same id) with owner and keys overwritten, the former owner no longer has E, and
\* the rows of the other endpoints are as they were.
C13_SubscribeRoundTrip ==
  [][ (last'.call.op = "subscribed") =>
        LET q == last'.call
            before == { s \in subs : s.endpoint = q.endpoint }
            after == { s \in subs' : s.endpoint = q.endpoint }
        IN /\ Cardinality(after) = 1
           /\ \A s \in after : s.user = q.user /\ s.keys = q.keys
           /\ Cardinality({ s \in subs' : s.user = q.user /\ s.endpoint = q.endpoint
                                            /\ s.keys = q.keys }) = 1
           /\ before # {} => { s.id : s \in after } = { s.id : s \in before }
           /\ \A s \in before :
                s.user # q.user =>
                  ~\E n \in subs' : n.user = s.user /\ n.endpoint = q.endpoint
           /\ subs' \ after = subs \ before
    ]_vars

C13_Witness ==
  /\ last.call.op = "subscribed"
  /\ last.call.found # 0
  /\ last.call.user = "bob"
  /\ \E s \in subs : s.endpoint = last.call.endpoint /\ s.user = "bob" /\ s.keys = "k2"
  /\ Cardinality(subs) = NumSubs

\* C14: unsubscribe(user, E) looks up the row with endpoint E owned by the user; when
\* there is none (E unknown, or owned by another user) the registry is unchanged, and
\* when there is one that row is deleted; the call reports success in every case, so
\* a second call changes nothing; a fan-out sends only to rows that are in the
\* registry when it starts.
C14_UnsubscribeFrame ==
  [][ /\ \A t \in Threads :
           (req[t] = NoCall /\ req'[t].op = "unsubscribe") =>
             LET q == req'[t]
                 own == { s \in subs : s.endpoint = q.endpoint /\ s.user = q.user }
             IN /\ (q.found = 0) = (own = {})
                /\ q.found # 0 => q.found \in { s.id : s \in own }
      /\ \A t \in Threads :
           (req[t].op = "unsubscribe" /\ req'[t] = NoCall) =>
             /\ last'.call = [req[t] EXCEPT !.op = "unsubscribed"]
             /\ req[t].found = 0 => subs' = subs
             /\ req[t].found # 0 => subs' = { s \in subs : s.id # req[t].found }
      /\ IsProcessStep => DOMAIN last'.push \subseteq { s.id : s \in subs }
    ]_vars

C14_Witness ==
  /\ last.call.op = "unsubscribed"
  /\ last.call.found # 0
  /\ ~\E s \in subs : s.endpoint = last.call.endpoint
  /\ \E t \in Threads : req[t].op = "unsubscribe" /\ req[t].found = 0

C16_TickExceptionCaught ==
  [][ /\ wpc' \in {"sleep", "loop"}
      /\ (last'.raised # "none") =>
           /\ wpc' = "sleep"
           /\ wBatch' = << >>
           /\ wIdx' = 0
           /\ wDirty' = {}
           /\ status' = status
           /\ subs' = subs
      /\ IsTickQuery =>
           /\ wDirty' = {}
           /\ Range(wBatch') = { r \in Reminders : status[r] = "PENDING" /\ sched[r] <= now }
    ]_vars

C16_Witness ==
  /\ last.raised = "commit"
  /\ wpc = "sleep"
  /\ \E r \in Reminders : fanouts[r] = 2

\* C17: without VAPID key material a push is skipped and is no error: in a fan-out
\* pass every subscription is skipped (nothing transmitted, nothing raised) whatever
\* the push service would answer, no subscription is deleted, the pass is completed
\* and the reminder is set to DUE, which the commit of the tick stores.
C17_NoVapidSkipsPush ==
  [][ ~vapidOn =>
        /\ (wpc = "loop" /\ wIdx <= Len(wBatch) /\ medUser[wBatch[wIdx]] \in Users) =>
             wpc' = "loop"
        /\ (IsProcessStep /\ medUser[wBatch[wIdx]] \in Users) =>
             /\ last'.fanout
             /\ DOMAIN last'.push = SubIdsOf(medUser[wBatch[wIdx]])
             /\ \A k \in DOMAIN last'.push : last'.push[k] = "skipped"
             /\ last'.pruned = {}
             /\ subs' = subs
             /\ wBatch[wIdx] \in wDirty'
        /\ IsTickCommit => \A r \in Range(wBatch) : status'[r] \in {"DUE", "SENT"}
    ]_vars

C17_Witness ==
  /\ ~vapidOn
  /\ Cardinality(DOMAIN last.push) = NumSubs
  /\ \A k \in DOMAIN last.push : last.push[k] = "skipped"
  /\ Cardinality(subs) = NumSubs

\* C18: with no mail transport configured, send_email returns success for every
\* recipient, subject and body, does not raise, and opens no SMTP session.
C18_NoSmtpAlwaysSucceeds ==
  (last.call.op = "send_email" /\ ~smtpOn) =>
    /\ last.call.out.result = "sent"
    /\ ~last.call.out.session
    /\ Len(last.call.out.log) = 3

C18_Witness ==
  /\ last.call.op = "send_email"
  /\ ~smtpOn
  /\ last.call.smtp = "smtp_error"
  /\ last.call.to = ""
  /\ Len(last.call.body) > EmailLogCut

\* A payload carries a disclaimer: the field is there and is not null or empty.
\* C19: for priority HIGH the push payload and the stream event both carry a
\* disclaimer, for priority NORMAL neither does.
C19_DisclaimerInBothPayloads ==
  (last.call.op = "payloads") =>
    LET carries(p) == "disclaimer" \in DOMAIN p /\ Truthy(p.disclaimer)
    IN /\ last.call.med.priority = "HIGH" =>
            carries(last.call.push) /\ carries(last.call.stream)
       /\ last.call.med.priority = "NORMAL" =>
            ~carries(last.call.push) /\ ~carries(last.call.stream)

\* C20: a reminder created by create_medication or test_trigger starts PENDING, and
\* once it is due and the poller polls, it gets to DUE or SENT instead of staying
\* PENDING.
C20_CreatedPendingThenDue ==
  /\ [][\A r \in Creatable :
          (status[r] = "NONE" /\ status'[r] # "NONE") => status'[r] = "PENDING"]_vars
  /\ \A r \in Creatable :
       (status[r] = "PENDING" /\ sched[r] <= now) ~> (status[r] \in {"DUE", "SENT"})

\* The step is the arrival of a request that carries no valid token.
IsUnauthenticatedRequest == last'.call.op = "request" /\ last'.token = "invalid"

IsTickFailure == wpc = "loop" /\ wpc' # "loop" /\ last'.raised # "none"

\* The reminders of the running batch that the for loop has gone through.
Iterated == { wBatch[i] : i \in 1..(wIdx - 1) }

\* C22: after a tick that failed, the reminders the loop had gone through before the
\* failure are all committed as DUE in the store (a stream may have taken them on to
\* SENT since) or all still PENDING, never some of each.
C22_FailedTickNotMixed ==
  [][IsTickFailure =>
       \/ \A r \in Iterated : status'[r] \in {"DUE", "SENT"}
       \/ \A r \in Iterated : status'[r] = "PENDING"]_vars

\* C23: the status transitions of one tick reach the store together: when the tick
\* commits a reminder of its batch from PENDING to DUE, no other reminder of the
\* batch has been committed before it, visible to the streams as DUE while this one
\* was still PENDING.
C23_BatchCommittedTogether ==
  [][\A r1, r2 \in Range(wBatch) :
       (wpc = "loop" /\ status[r2] = "PENDING" /\ status'[r2] = "DUE")
         => status[r1] = "PENDING"]_vars

\* C24: the tasks suspend at their sleep only: while a stream task is between its
\* query for DUE reminders and its commit of SENT, no step of the poller's tick and
\* no step of another stream task's tick is taken.
C24_StreamTickUninterrupted ==
  [][\A c \in Clients :
       spc[c] = "yield" =>
         /\ UNCHANGED << wpc, wBatch, wIdx, wDirty >>
         /\ \A d \in Clients \ {c} : sBatch'[d] = sBatch[d] /\ sIdx'[d] = sIdx[d]]_vars

\* C25: within one tick of the poller and within one tick of a stream task the
\* reminders are taken in ascending scheduled-time order: the reminder a pass of the
\* poller's loop processes is not scheduled earlier than one the tick has processed
\* before it, and the event a stream task emits next is not for a reminder scheduled
\* earlier than the one it emitted last.
C25_ScheduledTimeOrder ==
  [][/\ (wpc = "loop" /\ wIdx <= Len(wBatch) /\ wIdx' = wIdx + 1) =>
          \A j \in 1..(wIdx - 1) : sched[wBatch[j]] <= sched[wBatch[wIdx]]
     /\ \A c \in Clients :
          (spc[c] = "yield" /\ sIdx'[c] = sIdx[c] + 1) =>
            sched[sBatch[c][sIdx[c]]] <= sched[sBatch[c][sIdx'[c]]]]_vars

\* C26: a reminder gets the stored status SENT only by the commit of a stream task
\* that has yielded an event for it on its connection, and a tick that ends with the
\* client gone or with an exception stores nothing, so that what it emitted stays
\* DUE.
C26_SentOnlyAfterEvent ==
  [][/\ \A r \in Reminders :
          (status[r] # "SENT" /\ status'[r] = "SENT") =>
            \E c \in Clients :
              /\ spc[c] = "yield"
              /\ spc'[c] = "sleep"
              /\ r \in Range(sBatch[c])
              /\ events[c][r] >= 1
     /\ (\E c \in Clients : spc[c] = "yield" /\ spc'[c] = "closed") => status' = status
     /\ (last'.raised \in {"stream", "stream_commit"}) => status' = status]_vars

C26_Witness ==
  /\ last.raised = "stream"
  /\ \E r \in Reminders : status[r] = "SENT"
  /\ \E r \in Reminders, c \in Clients : status[r] = "DUE" /\ events[c][r] >= 1

\* C27: when the rendering of a reminder raises in a stream tick, what the tick had
\* already emitted is not emitted again to that client: no connection carries two
\* events for one reminder.
C27_NoRepeatToSameClient ==
  \A c \in Clients, r \in Reminders : events[c][r] <= 1

\* The step ends the running tick of the poller, by its commit or by an exception.
IsTickEnd == wpc = "loop" /\ wpc' # "loop"

\* C28: a due reminder whose medication has no user is passed without an email and
\* without a push fan-out, and the tick that passed it ends with its DUE in the
\* store, so that no later tick selects it again.
C28_NoUserStillDue ==
  [][\A r \in Reminders :
       medUser[r] = NoUser =>
         /\ (IsProcessStep /\ wBatch[wIdx] = r) =>
               emailCalls'[r] = emailCalls[r] /\ fanouts'[r] = fanouts[r]
         /\ (IsTickEnd /\ r \in Iterated) => status'[r] \in {"DUE", "SENT"}]_vars

\* C29: no reminder leaves PENDING before its scheduled time: a reminder that is in
\* the poller's batch, has its DUE pending in the poller's session, has been given to
\* a delivery channel, or is DUE or SENT in the store, is scheduled at or before the
\* current time.
C29_NotBeforeScheduledTime ==
  \A r \in Reminders :
    (\/ status[r] \in {"DUE", "SENT"}
     \/ r \in Range(wBatch)
     \/ r \in wDirty
     \/ emailCalls[r] > 0
     \/ fanouts[r] > 0) => sched[r] <= now

C29_Witness ==
  /\ wpc = "sleep"
  /\ \E r, q \in Reminders :
       /\ sched[r] > now
       /\ status[r] = "PENDING"
       /\ status[q] = "DUE"
       /\ fanouts[q] = 1

\* C30: a stream emits a reminder only after the poller has committed its DUE, and
\* the poller's commit comes after its delivery attempts: a reminder that is in a
\* stream's query result or has had an event on a connection is not PENDING, and if
\* its medication has a user, _send_push_to_user has been called for it, and
\* send_email too when the user has email notifications.
C30_EmittedAfterDelivery ==
  \A r \in Reminders :
    (\E c \in Clients : r \in Range(sBatch[c]) \/ events[c][r] >= 1) =>
      /\ status[r] \in {"DUE", "SENT"}
      /\ medUser[r] \in Users =>
           /\ fanouts[r] >= 1
           /\ EmailEnabled(medUser[r]) => emailCalls[r] >= 1

C30_Witness ==
  \E r \in Reminders, c \in Clients :
    /\ events[c][r] = 1
    /\ spc[c] = "yield"
    /\ medUser[r] = "alice"
    /\ emailCalls[r] = 1
    /\ wpc = "loop"
    /\ \E q \in Range(wBatch) : status[q] = "PENDING" /\ fanouts[q] = 1

\* C31: a connection emits, and marks SENT, only reminders of medications of the user
\* it authenticated as: every reminder in a connection's query result or emitted on
\* it belongs to the user of the one token that opens a stream.
C31_OwnRemindersOnly ==
  \A c \in Clients, r \in Reminders :
    (r \in Range(sBatch[c]) \/ events[c][r] >= 1) =>
      medUser[r] = GetCurrentUser("valid")

\* C32: an unsubscribe and the poller's pruning of the same subscription, in either
\* order or interleaved, both go through: each leaves the rows it deletes out of the
\* store and every other row in it, a deletion of a row that is already gone changes
\* nothing and raises nothing, and the poller's tick goes on with its status writes
\* committed.
C32_DeletionsCommute ==
  [][/\ (wpc = "prune" /\ wpc' # "prune") =>
          /\ wpc' = "loop"
          /\ last'.raised = "none"
          /\ \A s \in subs' : \A x \in wExpired : s.id # x.id
          /\ subs' \subseteq subs
          /\ \A s \in subs \ subs' : \E x \in wExpired : x.id = s.id
          /\ wExpired # {} => \A r \in wDirty : status'[r] = "DUE"
     /\ (last'.call.op = "unsubscribed") =>
          /\ \A s \in subs' : s.id # last'.call.found
          /\ subs' \subseteq subs
          /\ \A s \in subs \ subs' : s.id = last'.call.found]_vars

C32_Witness ==
  /\ last.call.op = "prune"
  /\ last.call.missing # {}
  /\ wpc = "loop"
  /\ \E r \in Reminders : status[r] = "DUE"

\* C33: in a fan-out pass nothing is deleted before every subscription of the user
\* has been attempted; then the subscriptions that failed for good (404, 410) are
\* deleted in one commit, and no commit is issued when none failed for good.
C33_PruneOnceAfterPass ==
  [][/\ (wpc = "loop" /\ wpc' = "prune") =>
          /\ subs' = subs
          /\ status' = status
          /\ DOMAIN last'.push = { s.id : s \in UserSubscriptions(medUser[wBatch[wIdx]]) }
     /\ (wpc = "prune" /\ wpc' = "loop") =>
          /\ last'.call.commits <= 1
          /\ last'.call.commits = 1 <=> wExpired # {}
          /\ \A s \in subs \ subs' : \E x \in wExpired : x.id = s.id
     /\ (wpc = "loop" /\ wpc' = "prune") =>
          (wExpired' # {} <=> \E i \in DOMAIN last'.push : last'.push[i] = "gone")]_vars

\* C34: at its sleep the poller, and every stream task, holds nothing of a session:
\* no rows read, no status written and not committed, no deletion waiting; this is
\* so after a commit, after a rollback and after an error.
C34_NothingHeldAtSleep ==
  /\ wpc = "sleep" => wBatch = << >> /\ wIdx = 0 /\ wDirty = {} /\ wExpired = {}
  /\ \A c \in Clients : spc[c] = "sleep" => sBatch[c] = << >> /\ sIdx[c] = 0

C34_Witness ==
  /\ wpc = "sleep"
  /\ last.raised = "commit"
  /\ \E r \in Reminders : status[r] = "PENDING" /\ sched[r] <= now /\ fanouts[r] >= 1

\* C35: once a connection has passed the identity check, only the client's going
\* away closes it: a step in which a stream tick fails (while an event is built, or
\* at the commit) closes no connection and leaves the failed task at its sleep with
\* nothing held, from where its next tick starts.
C35_FeedSurvivesFailures ==
  [][last'.raised \in {"stream", "stream_commit"} =>
       /\ \A c \in Clients : spc[c] # "closed" => spc'[c] # "closed"
       /\ \E c \in Clients : /\ spc'[c] = "sleep"
                             /\ sBatch'[c] = << >>
                             /\ \/ spc[c] = "yield"
                                \/ spc[c] = "sleep" /\ QueryDue # {}]_vars

C35_Witness ==
  \E c \in Clients, r \in Reminders :
    /\ spc[c] = "yield"
    /\ events[c][r] >= 2
    /\ sBatch[c][sIdx[c]] = r

\* C36: a shutdown signal changes nothing of the tick in flight, which runs to its
\* end; no tick starts while the flag is set; run_worker returns only from its loop
\* head, with nothing uncommitted; and once the flag is set the worker eventually
\* stops.
C36_GracefulShutdown ==
  /\ [][/\ (~shutdownRequested /\ shutdownRequested') =>
             UNCHANGED << wpc, wBatch, wIdx, wDirty, wExpired, status, subs >>
        /\ (wpc = "sleep" /\ wpc' = "loop") => ~shutdownRequested
        /\ (wpc # "stopped" /\ wpc' = "stopped") =>
             wpc = "sleep" /\ shutdownRequested /\ wDirty = {}]_vars
  /\ (shutdownRequested ~> wpc = "stopped")

C36_Witness ==
  /\ shutdownRequested
  /\ wpc = "loop"
  /\ last.rem # 0
  /\ last.fanout

\* C37: a DUE reminder becomes SENT while a stream client stays connected and its
\* task keeps running; SENT is written only by the commit of a stream tick that
\* yielded the reminder, never by a step of the poller; and with no stream client
\* connected a DUE reminder stays DUE.
C37_SentOnlyByStream ==
  /\ \A r \in Reminders, c \in Clients :
       (status[r] = "DUE" /\ spc[c] # "closed") ~> (status[r] = "SENT" \/ spc[c] = "closed")
  /\ [][\A r \in Reminders :
          /\ (status[r] # "SENT" /\ status'[r] = "SENT") =>
               /\ \E c \in Clients :
                    spc[c] = "yield" /\ spc'[c] = "sleep" /\ r \in Range(sBatch[c])
               /\ UNCHANGED << wpc, wIdx, wDirty >>
          /\ (status[r] = "DUE" /\ \A c \in Clients : spc[c] = "closed") =>
               status'[r] = "DUE"]_vars

C37_Witness ==
  \E r \in Reminders :
    /\ status[r] = "SENT"
    /\ wins[r] >= 1
    /\ fanouts[r] >= 1
    /\ r \in wFailed

\* C38: a pass of _process_reminder calls send_email only for a user who has opted
\* into email notifications and has an address; for a user who has not opted in it
\* calls no send_email, in any tick, and still performs the push fan-out.
C38_EmailOnlyWhenOptedIn ==
  [][\A r \in Reminders :
       (last'.rem = r /\ medUser[r] \in Users /\ last'.raised = "none") =>
         /\ (last'.email # "none" \/ emailCalls'[r] # emailCalls[r]) =>
              EmailNotifications(medUser[r]) /\ UserEmail(medUser[r]) # ""
         /\ ~EmailNotifications(medUser[r]) =>
              /\ last'.email = "none"
              /\ emailCalls'[r] = 0
              /\ last'.fanout
              /\ fanouts'[r] = Inc(fanouts[r])
              /\ DOMAIN last'.push = { s.id : s \in UserSubscriptions(medUser[r]) }]_vars

C38_Witness ==
  /\ last.rem # 0
  /\ medUser[last.rem] = "bob"
  /\ smtpOn
  /\ last.email = "none"
  /\ last.fanout
  /\ \E i \in DOMAIN last.push : last.push[i] = "sent"
  /\ emailCalls[last.rem] = 0

\* C39: the count _send_push_to_user returns is the number of subscriptions a
\* notification was transmitted to (none when push is not configured), and the
\* count check_reminders returns at the end of a tick is the number of reminders
\* of the tick whose DUE is in the store.
C39_CountsMatch ==
  [][/\ (last'.call.op = "fanout") =>
          last'.call.push_count =
            Cardinality({ i \in DOMAIN last'.push : last'.push[i] = "sent" })
     /\ (wpc = "loop" /\ wpc' = "sleep") =>
          ProcessedCount = Cardinality({ r \in Range(wBatch) : status'[r] # "PENDING" })]_vars

====
